---- MODULE Spec2Model ----
(***************************************************************************)
(* The snake game of src/src/App.tsx as a state machine: the React state   *)
(* of the App component, the interval held in loopRef together with the    *)
(* values its callback closed over, and one action per event handler.      *)
(* A handler, the render it causes and the effects of that render form one *)
(* atomic step (the event loop runs them to completion before the next     *)
(* event or timer callback).                                               *)
(***************************************************************************)
EXTENDS Integers, Sequences, FiniteSets, TLC

\* ------------------------------------------------------------ constants
GRID == 18

SwipeMin == 14

\* ------------------------------------------------------------ bounds
\* Ticks and direction requests explored in one game, that is since
\* construction or the last restart.
MaxEvents == 9

\* spawnFood's draws are explored over x in 9..10 and y in 9 .. 9 + MaxRand.
MaxRand == 1

\* The best score read from localStorage at construction is 0 .. MaxBest.
MaxBest == 0

\* tickMs is applied to the scores 0 .. MaxScore.
MaxScore == 60

\* wrap is applied to the integers -MaxInt .. GRID + MaxInt.
MaxInt == 30

\* Ticks explored in one game when direction requests are not counted.
MaxLiveTicks == 3

\* ------------------------------------------------------------ types
Dirs == {"up", "down", "left", "right"}

Cells == [x : 0..(GRID - 1), y : 0..(GRID - 1)]

RandX == {n \in 0..(GRID - 1) : n >= 9 /\ n <= 10}

RandY == {n \in 0..(GRID - 1) : n >= 9 /\ n <= 9 + MaxRand}

\* The swipes explored, as displacements << dx, dy >> in pixels: one for
\* each direction and one below the threshold.
Swipes == {<< 20, 13 >>, << -20, 13 >>, << 13, 20 >>, << 13, -20 >>, << 13, 13 >>}

\* ------------------------------------------------------------ helpers
same(a, b) == a.x = b.x /\ a.y = b.y

isOpposite(a, b) ==
  \/ (a = "up" /\ b = "down")
  \/ (a = "down" /\ b = "up")
  \/ (a = "left" /\ b = "right")
  \/ (a = "right" /\ b = "left")

dirVec(d) ==
  IF d = "up" THEN [x |-> 0, y |-> -1]
  ELSE IF d = "down" THEN [x |-> 0, y |-> 1]
  ELSE IF d = "left" THEN [x |-> -1, y |-> 0]
  ELSE [x |-> 1, y |-> 0]

\* Mutant of wrap: the comparisons are off by one.
wrapOffByOne(n) ==
  IF n <= 0 THEN GRID - 1
  ELSE IF n > GRID THEN 0
  ELSE n

wrap(n) ==
  IF n < 0 THEN GRID - 1
  ELSE IF n >= GRID THEN 0
  ELSE n

speed(sc) == 9 + (sc \div 5) * 2

\* Mutant of tickMs: Math.max(55, ...) is missing.
tickMsNoFloor(sc) == 1000 \div speed(sc)

tickMs(sc) ==
  LET q == 1000 \div speed(sc)
  IN IF q > 55 THEN q ELSE 55

startSnake == << [x |-> 9, y |-> 9], [x |-> 8, y |-> 9], [x |-> 7, y |-> 9] >>

\* Mutant of some: the last cell, which a move frees, is not scanned.
someButLast(s, f) == \E i \in 1..(Len(s) - 1) : same(s[i], f)

\* Mutant of some: only the head is compared.
someHeadOnly(s, f) == Len(s) > 0 /\ same(s[1], f)

\* s.some((c) => same(c, f))
some(s, f) == \E i \in 1..Len(s) : same(s[i], f)

\* Mutant of spawnFood: the first draw is returned, on the snake or not.
spawnFoodAnywhere(s) == [x : RandX, y : RandY]

\* The cells spawnFood(s) can return: any draw that is not on the snake.
\* (When the snake covers every explored draw the model has no result, and
\* the step that calls spawnFood is not explored from that state.)
spawnFood(s) == {f \in [x : RandX, y : RandY] : ~some(s, f)}

\* The updater every direction request hands to setNextDir.
turn(d, nd) == IF isOpposite(d, nd) THEN d ELSE nd

\* The direction a swipe of displacement (dx, dy) asks for.
swipeDir(dx, dy) ==
  LET ax == IF dx < 0 THEN -dx ELSE dx
      ay == IF dy < 0 THEN -dy ELSE dy
  IN IF ax > ay
     THEN (IF dx > 0 THEN "right" ELSE "left")
     ELSE (IF dy > 0 THEN "down" ELSE "up")

swipeTooShort(dx, dy) ==
  LET ax == IF dx < 0 THEN -dx ELSE dx
      ay == IF dy < 0 THEN -dy ELSE dy
  IN (IF ax > ay THEN ax ELSE ay) < SwipeMin

\* ------------------------------------------------------------ state
VARIABLES
  snake, dir, nextDir, food, score, best,
  running, paused, dead,
  loopRef,   \* << >> (null) or << c >>: the interval loopRef.current names
  timers,    \* the live intervals, each the values its callback closed over
  nEvents,   \* ticks and direction requests of this game
  fnArg,     \* the input of a pure function checked on its own
  fnOut      \* << >> or the results of applying the function to fnArg

vars == << snake, dir, nextDir, food, score, best, running, paused, dead,
           loopRef, timers, nEvents, fnArg, fnOut >>

\* The pure functions are checked in specifications of their own
\* (TickMsSpec, WrapSpec); the game leaves their input and output alone.
fn == << fnArg, fnOut >>

game == << snake, dir, nextDir, food, score, best, running, paused, dead >>

\* ------------------------------------------------------------ the interval
\* stopLoop() on the pair (loopRef.current, live intervals).
stopLoop(L) ==
  IF L.ref # << >>
  THEN [ref |-> << >>, timers |-> L.timers \ {L.ref[1]}]
  ELSE L

\* loopRef.current = window.setInterval(callback closing over c, tickMs)
setInterval(L, c) == [ref |-> << c >>, timers |-> L.timers \cup {c}]

\* Mutant of gameLoopEffect: paused is missing from the early return.
gameLoopIgnoresPause(L, changed, r, p, d, c) ==
  IF ~changed THEN L
  ELSE IF ~r \/ d THEN stopLoop(stopLoop(L))
  ELSE setInterval(stopLoop(stopLoop(L)), c)

\* The game-loop effect of a render: when a dependency changed, the cleanup
\* of the previous run (stopLoop) and then the body.
gameLoopEffect(L, changed, r, p, d, c) ==
  IF ~changed THEN L
  ELSE IF ~r \/ p \/ d THEN stopLoop(stopLoop(L))
  ELSE setInterval(stopLoop(stopLoop(L)), c)

\* Mutant of Deps: nextDir is missing from the dependency list.
DepsNoNextDir == << running, paused, dead, food, tickMs(score) >>

\* The dependency list of the game-loop effect, and what its callback closes over.
Deps == << running, paused, dead, nextDir, food, tickMs(score) >>

Closure == [nextDir |-> nextDir, food |-> food, score |-> score, best |-> best]

\* The render after a handler that left the interval as L; foodSet: setFood
\* was called with a fresh object, which differs from the old one by identity.
Render(L, foodSet) ==
  LET n == gameLoopEffect(L, foodSet \/ Deps' # Deps, running', paused', dead', Closure')
  IN /\ loopRef' = n.ref
     /\ timers' = n.timers

Loop == [ref |-> loopRef, timers |-> timers]

\* ------------------------------------------------------------ initial state
\* The component after construction and its first render.
Mounted ==
  /\ snake = startSnake
  /\ dir = "right"
  /\ nextDir = "right"
  /\ food = [x |-> 4, y |-> 6]
  /\ score = 0
  /\ best \in 0..MaxBest
  /\ running = FALSE
  /\ paused = FALSE
  /\ dead = FALSE
  /\ loopRef = << >>
  /\ timers = {}
  /\ nEvents = 0

Init ==
  /\ Mounted
  /\ fnArg = 0
  /\ fnOut = << >>

\* ------------------------------------------------------------ handlers
\* setNextDir((d) => (isOpposite(d, nd) ? d : nd))
setNextDirection(nd) ==
  /\ nextDir' = turn(nextDir, nd)
  /\ UNCHANGED << snake, dir, food, score, best, running, paused, dead >>
  /\ Render(Loop, FALSE)

KeyArrow(nd) ==
  /\ nEvents < MaxEvents
  /\ nEvents' = nEvents + 1
  /\ setNextDirection(nd)
  /\ UNCHANGED fn

\* One swipe on the canvas: onTouchStart records startPt and onTouchEnd reads
\* the displacement (dx, dy) from it and clears it. startPt is local to the
\* swipe effect, so the two handlers of one gesture are taken as one step.
Swipe(dx, dy) ==
  /\ nEvents < MaxEvents
  /\ nEvents' = nEvents + 1
  /\ IF swipeTooShort(dx, dy)
     THEN UNCHANGED << game, loopRef, timers >>
     ELSE setNextDirection(swipeDir(dx, dy))
  /\ UNCHANGED fn

\* Mutant of startGame: setDead(false) is missing.
startGameKeepsDead ==
  /\ paused' = FALSE
  /\ running' = TRUE
  /\ UNCHANGED << snake, dir, nextDir, food, score, best, dead >>
  /\ Render(Loop, FALSE)

startGame ==
  /\ dead' = FALSE
  /\ paused' = FALSE
  /\ running' = TRUE
  /\ UNCHANGED << snake, dir, nextDir, food, score, best >>
  /\ Render(Loop, FALSE)

KeyS ==
  /\ startGame
  /\ UNCHANGED << nEvents, fn >>

ButtonStart ==
  /\ ~(running /\ ~dead)
  /\ startGame
  /\ UNCHANGED << nEvents, fn >>

\* Mutant of canToggle: the guard returns only on the start screen.
canToggleNotIdle(r, d) == r \/ d

\* Mutant of canToggle: the guard of togglePause is missing.
canToggleAlways(r, d) == TRUE

canToggle(r, d) == ~(~r \/ d)

togglePause ==
  IF canToggle(running, dead)
  THEN /\ paused' = ~paused
       /\ UNCHANGED << snake, dir, nextDir, food, score, best, running, dead >>
       /\ Render(Loop, FALSE)
  ELSE UNCHANGED << game, loopRef, timers >>

KeySpace ==
  /\ togglePause
  /\ UNCHANGED << nEvents, fn >>

ButtonPause ==
  /\ ~(~running \/ dead)
  /\ togglePause
  /\ UNCHANGED << nEvents, fn >>

\* Mutant of restart: setRunning(false) is missing.
restartKeepsRunning ==
  /\ snake' = startSnake
  /\ dir' = "right"
  /\ nextDir' = "right"
  /\ food' \in spawnFood(startSnake)
  /\ score' = 0
  /\ dead' = FALSE
  /\ paused' = FALSE
  /\ UNCHANGED << best, running >>
  /\ Render(stopLoop(Loop), TRUE)

restart ==
  /\ snake' = startSnake
  /\ dir' = "right"
  /\ nextDir' = "right"
  /\ food' \in spawnFood(startSnake)
  /\ score' = 0
  /\ dead' = FALSE
  /\ paused' = FALSE
  /\ running' = FALSE
  /\ UNCHANGED best
  /\ Render(stopLoop(Loop), TRUE)

KeyR ==
  /\ restart
  /\ nEvents' = 0
  /\ UNCHANGED fn

ButtonRestart ==
  /\ restart
  /\ nEvents' = 0
  /\ UNCHANGED fn

\* ------------------------------------------------------------ the tick
\* Mutant of dieBest: the final score is stored without the comparison.
dieBestAlways(finalScore, b) == finalScore

\* The best score die(finalScore) leaves, given the best it closed over.
dieBest(finalScore, b) == IF finalScore > b THEN finalScore ELSE b

\* Mutant of moved: the last cell is dropped on every tick.
movedNoGrow(prev, next, ate) == SubSeq(<< next >> \o prev, 1, Len(prev))

\* Mutant of moved: the tail is never dropped.
movedAlwaysGrow(prev, next, ate) == << next >> \o prev

\* The snake a non-fatal tick returns.
moved(prev, next, ate) ==
  IF ate THEN << next >> \o prev
  ELSE SubSeq(<< next >> \o prev, 1, Len(prev))

\* The cell the callback of interval t computes as the next head.
nextHead(t) ==
  LET v == dirVec(t.nextDir)
      head == snake[1]
  IN [x |-> wrap(head.x + v.x), y |-> wrap(head.y + v.y)]

\* One callback of the interval t: the setSnake updater and what it calls.
Tick(t) ==
  /\ nEvents < MaxEvents
  /\ nEvents' = nEvents + 1
  /\ dir' = t.nextDir
  /\ LET next == nextHead(t)
         ate == same(next, t.food)
     IN IF some(snake, next)
        THEN /\ dead' = TRUE
             /\ running' = FALSE
             /\ paused' = FALSE
             /\ best' = dieBest(t.score, t.best)
             /\ UNCHANGED << snake, nextDir, food, score >>
             /\ Render(stopLoop(Loop), FALSE)
        ELSE /\ snake' = moved(snake, next, ate)
             /\ IF ate
                THEN /\ score' = score + 1
                     /\ food' \in spawnFood(moved(snake, next, ate))
                ELSE UNCHANGED << score, food >>
             /\ UNCHANGED << nextDir, best, running, paused, dead >>
             /\ Render(Loop, ate)
  /\ UNCHANGED fn

\* ------------------------------------------------------------ specification
Next ==
  \/ \E nd \in Dirs : KeyArrow(nd)
  \/ \E g \in Swipes : Swipe(g[1], g[2])
  \/ KeyS
  \/ ButtonStart
  \/ KeySpace
  \/ ButtonPause
  \/ KeyR
  \/ ButtonRestart
  \/ \E t \in timers : Tick(t)

Spec == Init /\ [][Next]_vars

\* ------------------------------------------------------------ tickMs alone
\* The score is drawn from 0 .. MaxScore and grows one point at a time, as
\* setScore((s) => s + 1) grows it; fnOut holds the interval of the score
\* before (when there is one) and the interval of the score fnArg.
ApplyTickMs ==
  /\ fnOut = << >>
  /\ fnOut' = << tickMs(fnArg) >>
  /\ UNCHANGED << game, loopRef, timers, nEvents, fnArg >>

ScoreUp ==
  /\ fnOut # << >>
  /\ fnArg < MaxScore
  /\ fnArg' = fnArg + 1
  /\ fnOut' = << fnOut[Len(fnOut)], tickMs(fnArg + 1) >>
  /\ UNCHANGED << game, loopRef, timers, nEvents >>

TickMsInit ==
  /\ Mounted
  /\ fnArg \in 0..MaxScore
  /\ fnOut = << >>

TickMsNext == ApplyTickMs \/ ScoreUp

TickMsSpec == TickMsInit /\ [][TickMsNext]_vars

\* ------------------------------------------------------------ wrap alone
\* wrap is applied to an integer drawn from -MaxInt .. GRID + MaxInt, then
\* to its own result; fnOut holds the results. The game, whose ticks apply
\* wrap to head.x + v.x and head.y + v.y, runs after the draw GRID.
ApplyWrap ==
  /\ fnOut = << >>
  /\ fnOut' = << wrap(fnArg) >>
  /\ UNCHANGED << game, loopRef, timers, nEvents, fnArg >>

ApplyWrapAgain ==
  /\ Len(fnOut) = 1
  /\ fnOut' = << fnOut[1], wrap(fnOut[1]) >>
  /\ UNCHANGED << game, loopRef, timers, nEvents, fnArg >>

WrapInit ==
  /\ Mounted
  /\ fnArg \in (0 - MaxInt)..(GRID + MaxInt)
  /\ fnOut = << >>

WrapNext ==
  \/ ApplyWrap
  \/ ApplyWrapAgain
  \/ (fnArg = GRID /\ Len(fnOut) = 2 /\ Next)

WrapSpec == WrapInit /\ [][WrapNext]_vars

\* ------------------------------------------------------------ the timer's fairness
\* Direction requests are not counted here, so that any number of them can
\* arrive between two ticks; nEvents counts the ticks of the game.
LiveKeyArrow(nd) ==
  /\ setNextDirection(nd)
  /\ UNCHANGED << nEvents, fn >>

LiveSwipe(dx, dy) ==
  /\ IF swipeTooShort(dx, dy)
     THEN UNCHANGED << game, loopRef, timers >>
     ELSE setNextDirection(swipeDir(dx, dy))
  /\ UNCHANGED << nEvents, fn >>

LiveTick(t) ==
  /\ nEvents < MaxLiveTicks
  /\ Tick(t)

\* The callback of the live interval whose closure holds nextDir = d.
TickOf(d) == \E t \in timers : t.nextDir = d /\ LiveTick(t)

LiveNext ==
  \/ \E nd \in Dirs : LiveKeyArrow(nd)
  \/ \E g \in Swipes : LiveSwipe(g[1], g[2])
  \/ KeyS
  \/ ButtonStart
  \/ KeySpace
  \/ ButtonPause
  \/ KeyR
  \/ ButtonRestart
  \/ \E t \in timers : LiveTick(t)

\* setInterval calls the callback of an interval that stays live: a
\* callback that stays enabled is eventually run. An interval that
\* clearInterval cancels is owed nothing, and the interval the effect then
\* creates starts its period anew.
LiveSpec ==
  /\ Init
  /\ [][LiveNext]_vars
  /\ \A d \in Dirs : WF_vars(TickOf(d))

\* ------------------------------------------------------------ the full grid
\* A tour of the torus that starts on the tail of startSnake and repeats
\* "17 steps right, 1 step down": cycleCell(0), cycleCell(1), ... visits all
\* GRID * GRID cells and cycleCell(GRID * GRID) = cycleCell(0). A snake that
\* is steered along the tour from construction (ArrowDown at the end of a
\* row, ArrowRight one tick later) never meets itself and eats every food
\* that spawnFood draws, so it reaches every length up to GRID * GRID - 1.
cycleCell(k) ==
  LET r == (k \div GRID) % GRID
      c == k % GRID
  IN [x |-> (startSnake[3].x + (GRID - r) + c) % GRID,
      y |-> (startSnake[3].y + r) % GRID]

FullLen == GRID * GRID - 1

\* The game after FullLen - 3 eating ticks along the tour: the snake covers
\* every cell but one, its head is one step left of that cell, and spawnFood,
\* which rejects the cells of the snake, has put the food there.
FullGridInit ==
  /\ snake = [i \in 1..FullLen |-> cycleCell(FullLen - i)]
  /\ dir = "right"
  /\ nextDir = "right"
  /\ food = cycleCell(FullLen)
  /\ score = FullLen - 3
  /\ best \in 0..MaxBest
  /\ running = TRUE
  /\ paused = FALSE
  /\ dead = FALSE
  /\ loopRef = << [nextDir |-> "right", food |-> cycleCell(FullLen),
                   score |-> FullLen - 3, best |-> best] >>
  /\ timers = {loopRef[1]}
  /\ nEvents = 0
  /\ fnArg = 0
  /\ fnOut = << >>

FullGridSpec == FullGridInit /\ [][Next]_vars

\* ------------------------------------------------------------ claims
\* Steps and values the claims speak of.
TickStep == \E t \in timers : Tick(t)

RestartStep == KeyR \/ ButtonRestart

StartStep == KeyS \/ ButtonStart

\* A keyboard arrow or a swipe that asks for direction r.
RequestStep(r) ==
  \/ KeyArrow(r)
  \/ \E g \in Swipes :
       /\ ~swipeTooShort(g[1], g[2])
       /\ swipeDir(g[1], g[2]) = r
       /\ Swipe(g[1], g[2])

OnSnake(s, c) == \E i \in 1..Len(s) : s[i] = c

\* The head the next tick computes from the state: one step from the head
\* in direction nextDir, wrapped on each axis.
CandidateHead ==
  [x |-> wrap(snake[1].x + dirVec(nextDir).x),
   y |-> wrap(snake[1].y + dirVec(nextDir).y)]

Max(a, b) == IF a > b THEN a ELSE b

\* C1: a direction request opposite to the committed direction dir leaves
\* nextDir unchanged, also when nextDir already differs from dir.
C1_OppositeOfDirRejected ==
  [][\A r \in Dirs : (isOpposite(dir, r) /\ RequestStep(r)) => nextDir' = nextDir]_vars

\* C2: the direction a tick commits is never the opposite of the direction
\* committed before it (dir is "right" initially and after restart).
C2_TickNeverReverses ==
  [][TickStep => ~isOpposite(dir, dir')]_vars

\* C3: a direction request that is not opposite to the committed direction
\* dir overwrites nextDir and changes nothing else of the game.
C3_NonOppositeOverwrites ==
  [][\A r \in Dirs : (~isOpposite(dir, r) /\ RequestStep(r)) =>
        /\ nextDir' = r
        /\ UNCHANGED << dir, snake, food, score, best, running, paused, dead >>]_vars

\* C4: a tick whose wrapped candidate head is a cell of the snake before the
\* move (the tail cell included) makes the game Dead (dead, not running, not
\* paused) and leaves snake, food and score unchanged.
C4_DeathLaw ==
  [][(TickStep /\ OnSnake(snake, CandidateHead)) =>
        /\ dead' /\ ~running' /\ ~paused'
        /\ snake' = snake /\ food' = food /\ score' = score]_vars

\* A game that ended with the head running into the snake's last cell.
C4_Witness ==
  /\ dead /\ ~running
  /\ Len(snake) >= 4
  /\ CandidateHead = snake[Len(snake)]

\* C5: a tick that is not fatal puts the wrapped candidate head in front of
\* the old snake; on food the tail stays, score grows by 1 and food is
\* respawned off the new snake; otherwise the last cell is dropped and
\* score and food stay. From the initial state one tick gives
\* [(10,9),(9,9),(8,9)] with score 0.
C5_GrowthLaw ==
  [][(TickStep /\ ~OnSnake(snake, CandidateHead)) =>
        /\ IF CandidateHead = food
           THEN /\ snake' = << CandidateHead >> \o snake
                /\ score' = score + 1
                /\ food' # food
                /\ ~OnSnake(snake', food')
           ELSE /\ snake' = << CandidateHead >> \o SubSeq(snake, 1, Len(snake) - 1)
                /\ score' = score
                /\ food' = food
        /\ (/\ snake = << [x |-> 9, y |-> 9], [x |-> 8, y |-> 9], [x |-> 7, y |-> 9] >>
            /\ food = [x |-> 4, y |-> 6]
            /\ nextDir = "right"
            /\ score = 0)
           => (/\ snake' = << [x |-> 10, y |-> 9], [x |-> 9, y |-> 9], [x |-> 8, y |-> 9] >>
               /\ score' = 0)]_vars

\* A snake that has grown by one and moved on without growing.
C5_Witness ==
  /\ score = 1
  /\ Len(snake) = 4
  /\ snake[1] # food
  /\ snake[4] # [x |-> 7, y |-> 9]

\* C6: the food cell is never a cell of the snake.
C6_FoodNotOnSnake == ~OnSnake(snake, food)

\* Food respawned twice in one game.
C6_Witness == score = 2 /\ ~OnSnake(snake, food)

\* C7: the snake is never empty and never holds a cell twice.
C7_SnakeNoDuplicates ==
  /\ Len(snake) >= 1
  /\ \A i, j \in 1..Len(snake) : i # j => snake[i] # snake[j]

\* A grown snake that has turned back alongside itself.
C7_Witness ==
  /\ Len(snake) >= 4
  /\ snake[1].y # snake[3].y
  /\ snake[1].x = snake[Len(snake)].x

\* C8: dead implies not running and not paused, and paused implies running:
\* the flags are Idle, Running, Paused or Dead.
C8_Lifecycle ==
  /\ dead => (~running /\ ~paused)
  /\ paused => running
  /\ << running, paused, dead >> \in
       {<< FALSE, FALSE, FALSE >>, << TRUE, FALSE, FALSE >>,
        << TRUE, TRUE, FALSE >>, << FALSE, FALSE, TRUE >>}

\* A game paused after it was restarted from Dead.
C8_Witness == paused /\ running /\ ~dead /\ best >= 1 /\ score = 0 /\ nEvents >= 1

\* C9: restart cancels the timer and gives the three-cell start snake,
\* dir = nextDir = right, score 0, all flags false, a food off the snake and
\* the same best; no tick happens while not running, and only start makes
\* the game running.
C9_Restart ==
  [][/\ RestartStep =>
          /\ snake' = << [x |-> 9, y |-> 9], [x |-> 8, y |-> 9], [x |-> 7, y |-> 9] >>
          /\ dir' = "right" /\ nextDir' = "right"
          /\ score' = 0
          /\ ~running' /\ ~paused' /\ ~dead'
          /\ ~OnSnake(snake', food')
          /\ best' = best
          /\ timers' = {} /\ loopRef' = << >>
     /\ TickStep => running
     /\ (~running /\ running') => StartStep]_vars

\* The start screen after a restart from a game that had scored.
C9_Witness ==
  /\ snake = startSnake /\ nEvents = 0
  /\ food # [x |-> 4, y |-> 6]
  /\ ~running /\ ~paused /\ ~dead
  /\ score = 0 /\ best >= 1
  /\ timers = {}

\* C10: best changes only in a tick that makes the game Dead, where it
\* becomes the larger of best and score; it never decreases, and best >= score
\* whenever dead.
C10_BestScore ==
  [][/\ best' # best => (TickStep /\ ~dead /\ dead')
     /\ (TickStep /\ dead') => best' = Max(best, score)
     /\ best' >= best
     /\ dead' => best' >= score']_vars

\* A death with a score below the best of an earlier game.
C10_Witness == dead /\ score = 0 /\ best = 1 /\ nEvents >= 1

\* ------------------------------------------------------------ claims C11 ..
PauseStep == KeySpace \/ ButtonPause

\* C11: start (button or 's' key) while running and not dead changes
\* nothing; in particular a paused game stays paused.
C11_StartWhileRunningNoOp ==
  [][(StartStep /\ running /\ ~dead) => UNCHANGED << game, loopRef, timers >>]_vars

\* C12 as stated: once Dead, the game stays Dead under every command other
\* than restart.
C12_DeadUntilRestart ==
  [][(dead /\ ~RestartStep) => (dead' /\ ~running')]_vars

\* C12 as amended: Dead is left only by restart or start. No tick runs
\* while dead; pause toggles and direction requests keep the game Dead with
\* the same snake and score; start makes it Running with that snake and score.
C12_DeadUntilRestartOrStart ==
  [][dead =>
       /\ ~TickStep
       /\ (~RestartStep /\ ~StartStep) =>
             /\ dead' /\ ~running' /\ ~paused'
             /\ snake' = snake /\ score' = score
       /\ StartStep =>
             /\ ~dead' /\ running' /\ ~paused'
             /\ snake' = snake /\ score' = score]_vars

\* A dead game in which a direction request has changed nextDir since the
\* fatal tick committed it.
C12_Witness == dead /\ ~running /\ nextDir # dir /\ timers = {}

\* C13: the pause toggle flips paused exactly when running and not dead and
\* changes nothing else, and does nothing in Idle and Dead; no tick runs
\* while paused, and while the game stays paused snake, food, score and dir
\* do not change.
C13_PauseToggle ==
  [][/\ PauseStep =>
          IF running /\ ~dead
          THEN /\ paused' = ~paused
               /\ UNCHANGED << snake, dir, nextDir, food, score, best, running, dead >>
          ELSE UNCHANGED game
     /\ paused => ~TickStep
     /\ paused' => timers' = {}
     /\ (paused /\ paused') => UNCHANGED << snake, food, score, dir >>]_vars

\* A paused game that has scored, with a pending direction change.
C13_Witness == paused /\ running /\ score >= 1 /\ nextDir # dir /\ timers = {}

\* C14: an interval is live only while running, not paused and not dead; at
\* most one is live, the one loopRef names; and its callback holds the
\* current nextDir, food, score and best.
C14_NoStaleTimer ==
  /\ Cardinality(timers) <= 1
  /\ timers = {loopRef[i] : i \in 1..Len(loopRef)}
  /\ \A t \in timers :
       /\ running /\ ~paused /\ ~dead
       /\ t.nextDir = nextDir
       /\ t.food = food
       /\ t.score = score
       /\ t.best = best

\* A live interval rebuilt after the snake ate and a direction was requested.
C14_Witness ==
  /\ timers # {}
  /\ score >= 1
  /\ nextDir # dir
  /\ best >= 1

\* C18: start in any state sets running, clears dead and paused, and leaves
\* snake, food, score, dir, nextDir and best unchanged; only restart lowers
\* the score or shortens the snake, so a start issued in Dead resumes from
\* the snake, score and nextDir of the moment of death.
C18_StartFrame ==
  [][/\ StartStep =>
          /\ running' /\ ~dead' /\ ~paused'
          /\ UNCHANGED << snake, food, score, dir, nextDir, best >>
          /\ timers' # {}
     /\ (score' < score \/ Len(snake') < Len(snake)) => RestartStep]_vars

\* A game started again after death: it runs from the snake that died, whose
\* next head is still on its own body, with the score it died with.
C18_Witness ==
  /\ running /\ ~paused /\ ~dead
  /\ timers # {}
  /\ score >= 1
  /\ dir = nextDir
  /\ OnSnake(snake, CandidateHead)

\* C20: in every reachable state the snake is score + 3 cells long.
C20_LengthIsScorePlus3 == Len(snake) = score + 3

\* A game that died after eating twice and was started again.
C20_Witness ==
  /\ score = 2
  /\ Len(snake) = 5
  /\ best = 2
  /\ running

\* C16: for every score the tick interval is
\* max(55, floor(1000 / (9 + 2 * floor(score / 5)))); it is never below 55,
\* never grows when the score grows, and differs from the interval of the
\* score before only when the score is a multiple of 5.
C16_TickInterval ==
  fnOut # << >> =>
    LET ms == fnOut[Len(fnOut)]
    IN /\ ms = Max(55, 1000 \div (9 + 2 * (fnArg \div 5)))
       /\ ms >= 55
       /\ Len(fnOut) = 2 =>
            /\ ms <= fnOut[1]
            /\ ms # fnOut[1] => fnArg % 5 = 0

\* The score reaches 25, where 1000 / 19 falls below the floor of 55.
C16_Witness == fnArg = 25 /\ fnOut = << 58, 55 >>

\* C17: wrap(n) is in 0 .. GRID - 1 and wrap(wrap(n)) = wrap(n) for every
\* integer n; every snake cell and the food cell have both coordinates in
\* 0 .. GRID - 1 in every reachable state.
C17_WrapInRange ==
  /\ \A i \in 1..Len(fnOut) : fnOut[i] \in 0..(GRID - 1)
  /\ Len(fnOut) = 2 => fnOut[2] = fnOut[1]
  /\ \A i \in 1..Len(snake) :
       snake[i].x \in 0..(GRID - 1) /\ snake[i].y \in 0..(GRID - 1)
  /\ food.x \in 0..(GRID - 1) /\ food.y \in 0..(GRID - 1)

\* wrap(GRID) and its second application gave 0, and a tick has taken the
\* head from x = GRID - 1 over the right edge to x = 0.
C17_Witness ==
  /\ fnArg = GRID
  /\ fnOut = << 0, 0 >>
  /\ snake[1].x = 0
  /\ snake[2].x = GRID - 1
  /\ dir = "right"

Running == running /\ ~paused /\ ~dead

\* From a Running state with k ticks done, the game leaves Running or does
\* another tick.
TickEventually ==
  \A k \in 0..(MaxLiveTicks - 1) :
    (Running /\ nEvents = k) ~> (~Running \/ nEvents # k)

\* The interval is replaced only by a step that changes the tick interval
\* or one of running, paused and dead.
RebuildOnlyOnPeriodOrFlags ==
  [][loopRef' # loopRef =>
       \/ tickMs(score') # tickMs(score)
       \/ << running', paused', dead' >> # << running, paused, dead >>]_vars

\* C15: while the game stays Running a tick eventually executes, under
\* fairness of the timer, however many direction requests arrive in the
\* meantime; and the interval is cancelled and rebuilt only when the tick
\* interval changes or running, paused or dead toggles.
C15_TimerProgress == TickEventually /\ RebuildOnlyOnPeriodOrFlags

\* C19: every food respawn terminates: whenever a tick is about to eat, and
\* so to call spawnFood on the grown snake, at least one cell of the grid is
\* not on that snake.
C19_RespawnHasFreeCell ==
  \A t \in timers :
    LET next == nextHead(t)
    IN (~some(snake, next) /\ same(next, t.food)) =>
         \E c \in Cells : ~some(moved(snake, next, TRUE), c)

====
